---- MODULE Spec2Model ----
(***************************************************************************)
(* RetroCam (src/src/App.tsx): the camera lifecycle of startCamera /        *)
(* stopCamera and the capture pipeline of capturePhoto, as a state machine. *)
(*                                                                          *)
(* One start() invocation is a "call" c; the stream it obtains from         *)
(* getUserMedia carries the same number c.  0 stands for null.              *)
(*                                                                          *)
(* React state (cameraState, filmCount, ...) holds the latest value set;    *)
(* `view` is what the last render produced: the values the callbacks'       *)
(* closures and the buttons' disabled attributes were built from.  Updates  *)
(* made in a click handler are rendered before the next task runs           *)
(* (syncDirty blocks promise continuations, media events and timers until   *)
(* Render), but further clicks dispatched in the same task still see the    *)
(* previous render.  Updates made in a promise continuation or a timer are  *)
(* rendered by a later task.                                                *)
(***************************************************************************)
EXTENDS Integers, Sequences, FiniteSets, TLC

\* ---------------------------------------------------------------- bounds
MaxCalls == 2
MaxPending == 2
MaxShots == 1
FilmCalls == 1
NoiseRes == 4
EdgeSpan == 1

\* ------------------------------------------------------ program constants
FilmStart == 24

Calls == 1..MaxCalls
Modes == {"Natural", "70s Film", "Sepia", "Polaroid"}
InFlight == {"gum", "ready", "play"}
Finished == {"done", "failed"}

VARIABLES
  status,        \* cameraState.status
  error,         \* cameraState.error, a sequence of words (<<>>: undefined)
  selectedMode,  \* selectedMode
  filmCount,     \* filmCount
  isCapturing,   \* isCapturing
  capturedImage, \* capturedImage: NoImage (null) or the artifact [id, stream]
  showFlash,     \* showFlash
  mounted,       \* the component is mounted: videoRef.current, canvasRef.current are set
  streamRef,     \* streamRef.current
  srcObject,     \* the video element's srcObject
  hasMeta,       \* the video element has the metadata of srcObject (videoWidth > 0)
  live,          \* streams obtained whose tracks have not been stopped
  pc,            \* position of each startCamera invocation
  lsn,           \* calls whose loadedmetadata/error listeners are registered
  timers,        \* calls whose 5000 ms timer is pending
  flashTimers,   \* pending 150 ms timers
  capTimers,     \* pending 300 ms timers
  view,          \* the last render: [status, filmCount, capturedImage]
  syncDirty,     \* a click handler updated state and the render has not run yet
  prevStatus,    \* history: cameraState.status just before the latest setCameraState
  caught,        \* history: the error behind cameraState.error (NoErr: none)
  gumLog,        \* history: per call, the handle state when getUserMedia was called
  overlap,       \* history: some startCamera began while another was in flight
  shots,         \* history: number of artifacts produced
  data,          \* imageData.data of one pixel: <<R, G, B, A>> (<<>>: no image data)
  rawData,       \* history: data as getImageData returned it (<<>>: no grain yet)
  noise          \* history: the noise sample of the pixel, in 1/NoiseRes

camVars == <<status, error, mounted, streamRef, srcObject, hasMeta, live, pc, lsn,
             timers, prevStatus, caught, gumLog, overlap>>
capVars == <<selectedMode, filmCount, isCapturing, capturedImage, showFlash,
             flashTimers, capTimers, shots>>
grainVars == <<data, rawData, noise>>
vars == <<camVars, capVars, view, syncDirty, grainVars>>

\* ------------------------------------------------------------ error text
PermissionMsg == <<"Camera", "access", "denied.">>
NotFoundMsg == <<"No", "camera", "found">>

\* The errors startCamera catches, each with its name and its message (a
\* sequence of words).  The readiness promise rejects with a plain Error,
\* play() with a DOMException.
TimeoutErr == [name |-> "Error",
               message |-> <<"Camera", "initialization", "timed", "out">>]
VideoErr == [name |-> "Error", message |-> <<"Video", "failed", "to", "load">>]
PlayErr == [name |-> "AbortError", message |-> <<"play()", "interrupted">>]

\* The DOMExceptions getUserMedia rejects with: permission refused, no
\* camera, camera in use.
GumErrors == { [name |-> "NotAllowedError", message |-> <<"Permission", "denied">>],
               [name |-> "NotFoundError",
                message |-> <<"Requested", "device", "not", "found">>],
               [name |-> "NotReadableError",
                message |-> <<"Could", "not", "start", "video", "source">>] }

\* No error caught.
NoErr == [name |-> "", message |-> <<>>]

Includes(s, sub) ==
  \E i \in 1..(Len(s) - Len(sub) + 1) : SubSeq(s, i, i + Len(sub) - 1) = sub

HasWord(s, w) == \E i \in 1..Len(s) : s[i] = w

ErrorText(errorMessage) ==
  IF Includes(errorMessage, <<"Permission", "denied">>)
       \/ HasWord(errorMessage, "NotAllowedError")
    THEN PermissionMsg
  ELSE IF HasWord(errorMessage, "NotFoundError")
            \/ HasWord(errorMessage, "DevicesNotFoundError")
    THEN NotFoundMsg
  ELSE <<"Camera", "error:">> \o errorMessage

\* ------------------------------------------------------------- handle state
\* The state stopCamera runs in: the handle, the streams, the video element
\* and cameraState.status (st: the status when stopCamera is called).
Cam(st) == [streamRef |-> streamRef, srcObject |-> srcObject,
            hasMeta |-> hasMeta, live |-> live, status |-> st]

Handle == Cam(status)

\* stopCamera that clears the reference without stopping the tracks.
stopCameraKeepsTracks(h, video) ==
  LET released == IF h.streamRef # 0 THEN [h EXCEPT !.streamRef = 0] ELSE h
  IN IF video THEN [released EXCEPT !.srcObject = 0, !.hasMeta = FALSE]
              ELSE released

\* stopCamera that detaches the video only when no stream is held.
stopCameraDetachElse(h, video) ==
  IF h.streamRef # 0
    THEN [h EXCEPT !.live = h.live \ {h.streamRef}, !.streamRef = 0]
    ELSE IF video THEN [h EXCEPT !.srcObject = 0, !.hasMeta = FALSE] ELSE h

\* stopCamera (lines 29-37); video: videoRef.current is set.
stopCamera(h, video) ==
  LET released == IF h.streamRef # 0
                    THEN [h EXCEPT !.live = h.live \ {h.streamRef}, !.streamRef = 0]
                    ELSE h
  IN IF video THEN [released EXCEPT !.srcObject = 0, !.hasMeta = FALSE]
              ELSE released

\* getUserMedia called before stopCamera().
IssueRequestBeforeStop(before, after) ==
  [held |-> before.streamRef, streamRef |-> before.streamRef,
   srcObject |-> before.srcObject, live |-> before.live]

\* What the provider sees when getUserMedia is called (line 46), after the
\* stopCamera() of line 43: before is the handle state on entry, after the
\* handle state stopCamera left.
IssueRequest(before, after) ==
  [held |-> before.streamRef, streamRef |-> after.streamRef,
   srcObject |-> after.srcObject, live |-> after.live]

\* capturedImage is null.
NoImage == [id |-> 0, stream |-> 0]

NoRequest == [held |-> 0, streamRef |-> 0, srcObject |-> 0, live |-> {}]

\* setCameraState: React drops the update of an unmounted component.
SetCameraState(st, err) ==
  /\ status' = IF mounted THEN st ELSE status
  /\ error' = IF mounted THEN err ELSE error
  /\ caught' = IF mounted THEN NoErr ELSE caught
  /\ prevStatus' = IF mounted THEN status ELSE prevStatus

\* The catch block of startCamera (lines 96-107) for the calls in cs, which
\* all fail with err in this step; err is an Error, so errorMessage is
\* err.message (line 98).
Catch(cs, err) ==
  /\ status' = IF mounted THEN "error" ELSE status
  /\ error' = IF mounted THEN ErrorText(err.message) ELSE error
  /\ caught' = IF mounted THEN err ELSE caught
  /\ prevStatus' = IF ~mounted THEN prevStatus
                   ELSE IF Cardinality(cs) > 1 THEN "error" ELSE status

CurView == [status |-> status, filmCount |-> filmCount,
            capturedImage |-> capturedImage]

Mount ==
  /\ status = "idle"
  /\ error = <<>>
  /\ selectedMode = "70s Film"
  /\ filmCount = FilmStart
  /\ isCapturing = FALSE
  /\ capturedImage = NoImage
  /\ showFlash = FALSE
  /\ mounted = TRUE
  /\ streamRef = 0
  /\ srcObject = 0
  /\ hasMeta = FALSE
  /\ live = {}
  /\ pc = [c \in Calls |-> "new"]
  /\ lsn = {}
  /\ timers = {}
  /\ flashTimers = 0
  /\ capTimers = 0
  /\ view = [status |-> "idle", filmCount |-> FilmStart, capturedImage |-> NoImage]
  /\ syncDirty = FALSE
  /\ prevStatus = "none"
  /\ caught = NoErr
  /\ gumLog = [c \in Calls |-> NoRequest]
  /\ overlap = FALSE
  /\ shots = 0

\* The component as mounted; the pixels of a captured frame are those of
\* InitGrain.
Init ==
  /\ Mount
  /\ data = <<>>
  /\ rawData = <<>>
  /\ noise = 0

\* ------------------------------------------------------------ startCamera
\* No play() promise is rejected by an assignment to video.srcObject.
AbortedNone == {}

\* The calls whose video.play() promise is pending (line 72).  An assignment
\* to video.srcObject runs the load algorithm of the media element, which
\* rejects the pending play() promises with an AbortError; their catch blocks
\* run as microtasks of the task that made the assignment.
Aborted == {d \in Calls : pc[d] = "play"}

\* A click on START CAMERA, TRY AGAIN or the switch-camera button: lines
\* 40-46, up to the await of getUserMedia.
startCamera(c, maxCalls) ==
  /\ mounted
  /\ c <= maxCalls
  /\ pc[c] = "new"
  /\ \A d \in Calls : d < c => pc[d] # "new"
  /\ LET after == stopCamera(Cam("requesting"), TRUE)
     IN /\ streamRef' = after.streamRef
        /\ srcObject' = after.srcObject
        /\ hasMeta' = after.hasMeta
        /\ live' = after.live
        /\ gumLog' = [gumLog EXCEPT ![c] = IssueRequest(Handle, after)]
        /\ IF Aborted = {}
             THEN /\ status' = after.status
                  /\ error' = <<>>
                  /\ caught' = NoErr
                  /\ prevStatus' = status
             ELSE /\ status' = "error"
                  /\ error' = ErrorText(PlayErr.message)
                  /\ caught' = PlayErr
                  /\ prevStatus' = IF Cardinality(Aborted) > 1 THEN "error"
                                   ELSE after.status
  /\ pc' = [d \in Calls |-> IF d = c THEN "gum"
                             ELSE IF d \in Aborted THEN "failed" ELSE pc[d]]
  /\ overlap' = (overlap \/ \E d \in Calls : pc[d] \in InFlight)
  /\ syncDirty' = TRUE
  /\ UNCHANGED grainVars
  /\ UNCHANGED <<mounted, lsn, timers, capVars, view>>

\* getUserMedia resolves with stream c: lines 55-91, up to the await of the
\* readiness promise (or to the end when videoRef.current is null).
GumResolve(c) ==
  /\ ~syncDirty
  /\ pc[c] = "gum"
  /\ streamRef' = c
  /\ live' = live \cup {c}
  /\ IF mounted
       THEN /\ srcObject' = c
            /\ hasMeta' = FALSE
            /\ lsn' = lsn \cup {c}
            /\ timers' = timers \cup {c}
            /\ pc' = [d \in Calls |-> IF d = c THEN "ready"
                                       ELSE IF d \in Aborted THEN "failed" ELSE pc[d]]
            /\ IF Aborted = {}
                 THEN UNCHANGED <<status, error, prevStatus, caught>>
                 ELSE Catch(Aborted, PlayErr)
       ELSE /\ pc' = [pc EXCEPT ![c] = "done"]
            /\ UNCHANGED <<srcObject, hasMeta, lsn, timers>>
            /\ UNCHANGED <<status, error, prevStatus, caught>>
  /\ UNCHANGED grainVars
  /\ UNCHANGED <<mounted, gumLog, overlap, capVars, view, syncDirty>>

\* getUserMedia rejects: the catch block.
GumReject(c) ==
  /\ ~syncDirty
  /\ pc[c] = "gum"
  /\ \E m \in GumErrors : Catch({c}, m)
  /\ pc' = [pc EXCEPT ![c] = "failed"]
  /\ UNCHANGED grainVars
  /\ UNCHANGED <<mounted, streamRef, srcObject, hasMeta, live, lsn, timers, gumLog,
                 overlap, capVars, view, syncDirty>>

\* The video element fires loadedmetadata: every registered onLoadedMetadata
\* runs (lines 69-75), removes its listeners and calls video.play().
LoadedMetadata ==
  /\ ~syncDirty
  /\ srcObject # 0
  /\ srcObject \in live
  /\ ~hasMeta
  /\ hasMeta' = TRUE
  /\ pc' = [c \in Calls |-> IF c \in lsn THEN "play" ELSE pc[c]]
  /\ lsn' = {}
  /\ UNCHANGED grainVars
  /\ UNCHANGED <<status, error, prevStatus, caught, mounted, streamRef, srcObject, live,
                 timers, gumLog, overlap, capVars, view, syncDirty>>

\* The video element fires error: every registered onError runs (lines 77-81).
VideoError ==
  /\ ~syncDirty
  /\ srcObject # 0
  /\ ~hasMeta
  /\ lsn # {}
  /\ Catch(lsn, VideoErr)
  /\ pc' = [c \in Calls |-> IF c \in lsn THEN "failed" ELSE pc[c]]
  /\ lsn' = {}
  /\ UNCHANGED grainVars
  /\ UNCHANGED <<mounted, streamRef, srcObject, hasMeta, live, timers, gumLog,
                 overlap, capVars, view, syncDirty>>

\* video.play() resolves: line 94.
PlayResolve(c) ==
  /\ ~syncDirty
  /\ pc[c] = "play"
  /\ SetCameraState("active", <<>>)
  /\ pc' = [pc EXCEPT ![c] = "done"]
  /\ UNCHANGED grainVars
  /\ UNCHANGED <<mounted, streamRef, srcObject, hasMeta, live, lsn, timers, gumLog,
                 overlap, capVars, view, syncDirty>>

\* video.play() rejects: the catch block.
PlayReject(c) ==
  /\ ~syncDirty
  /\ pc[c] = "play"
  /\ Catch({c}, PlayErr)
  /\ pc' = [pc EXCEPT ![c] = "failed"]
  /\ UNCHANGED grainVars
  /\ UNCHANGED <<mounted, streamRef, srcObject, hasMeta, live, lsn, timers, gumLog,
                 overlap, capVars, view, syncDirty>>

\* A 5000 ms timer whose reject takes effect on a settled promise too, and
\* which removes every listener.
ReadyTimeoutAlways(c) ==
  /\ ~syncDirty
  /\ c \in timers
  /\ timers' = timers \ {c}
  /\ lsn' = {}
  /\ Catch({c}, TimeoutErr)
  /\ pc' = [pc EXCEPT ![c] = "failed"]
  /\ UNCHANGED grainVars
  /\ UNCHANGED <<mounted, streamRef, srcObject, hasMeta, live, gumLog, overlap,
                 capVars, view, syncDirty>>

\* A 5000 ms timer that removes the listeners and rejects nothing.
ReadyTimeoutNoReject(c) ==
  /\ ~syncDirty
  /\ c \in timers
  /\ timers' = timers \ {c}
  /\ lsn' = lsn \ {c}
  /\ UNCHANGED <<status, error, prevStatus, caught, pc>>
  /\ UNCHANGED grainVars
  /\ UNCHANGED <<mounted, streamRef, srcObject, hasMeta, live, gumLog, overlap,
                 capVars, view, syncDirty>>

\* The 5000 ms timer of call c fires (lines 87-91): it removes the listeners
\* of c and rejects the readiness promise, which has an effect only while
\* that promise is pending.
ReadyTimeout(c) ==
  /\ ~syncDirty
  /\ c \in timers
  /\ timers' = timers \ {c}
  /\ lsn' = lsn \ {c}
  /\ IF pc[c] \in {"ready", "play"}
       THEN /\ Catch({c}, TimeoutErr)
            /\ pc' = [pc EXCEPT ![c] = "failed"]
       ELSE UNCHANGED <<status, error, prevStatus, caught, pc>>
  /\ UNCHANGED grainVars
  /\ UNCHANGED <<mounted, streamRef, srcObject, hasMeta, live, gumLog, overlap,
                 capVars, view, syncDirty>>

\* The component unmounts: React clears the refs of the elements, then the
\* effect cleanup of lines 110-114 calls stopCamera().
Unmount ==
  /\ ~syncDirty
  /\ mounted
  /\ mounted' = FALSE
  /\ LET after == stopCamera(Handle, FALSE)
     IN /\ streamRef' = after.streamRef
        /\ srcObject' = after.srcObject
        /\ hasMeta' = after.hasMeta
        /\ live' = after.live
        /\ status' = after.status
  /\ UNCHANGED grainVars
  /\ UNCHANGED <<error, prevStatus, caught, pc, lsn, timers, gumLog, overlap,
                 capVars, view, syncDirty>>

\* React renders App with the current state.
Render ==
  /\ mounted
  /\ syncDirty \/ view # CurView
  /\ view' = CurView
  /\ syncDirty' = FALSE
  /\ UNCHANGED grainVars
  /\ UNCHANGED <<camVars, capVars>>

\* ----------------------------------------------------------- capturePhoto
\* A capture button that looks at the budget only.
CaptureEnabledBudgetOnly(v) == ~(v.filmCount <= 0)

\* The capture button is enabled (lines 362-364) in the render v.
CaptureEnabled(v) == ~(v.status # "active" \/ v.filmCount <= 0)

\* capturePhoto goes past its first line (117): video is videoRef.current,
\* canvas is canvasRef.current, seen the filmCount of its closure.
CaptureGuard(video, canvas, seen) == ~(~video \/ ~canvas \/ seen <= 0)

\* setFilmCount(filmCount - 1): the budget computed from the closure.
FilmUpdateFromClosure(prev, seen) == seen - 1

\* The updater of line 149: prev is the budget it is applied to, seen the
\* filmCount of the closure.
FilmUpdate(prev, seen) == prev - 1

\* A click on the capture button runs capturePhoto (lines 116-152) with the
\* closure of the last render.  ctx is whether getContext('2d') returns a
\* context.  Without a frame the canvas is 0 x 0 and getImageData throws,
\* which ends the handler at line 137.
capturePhoto(ctx, maxShots) ==
  /\ mounted
  /\ shots < maxShots
  /\ flashTimers < MaxPending
  /\ capTimers < MaxPending
  /\ CaptureEnabled(view)
  /\ CaptureGuard(mounted, mounted, view.filmCount)
  /\ isCapturing' = TRUE
  /\ showFlash' = TRUE
  /\ flashTimers' = flashTimers + 1
  /\ IF ctx /\ srcObject # 0 /\ hasMeta
       THEN /\ capturedImage' = [id |-> shots + 1, stream |-> srcObject]
            /\ filmCount' = FilmUpdate(filmCount, view.filmCount)
            /\ shots' = shots + 1
            /\ capTimers' = capTimers + 1
       ELSE UNCHANGED <<capturedImage, filmCount, shots, capTimers>>
  /\ syncDirty' = TRUE
  /\ UNCHANGED grainVars
  /\ UNCHANGED <<camVars, selectedMode, view>>

\* The 150 ms timer of line 122.
FlashTimeout ==
  /\ ~syncDirty
  /\ flashTimers > 0
  /\ flashTimers' = flashTimers - 1
  /\ showFlash' = IF mounted THEN FALSE ELSE showFlash
  /\ UNCHANGED grainVars
  /\ UNCHANGED <<camVars, selectedMode, filmCount, isCapturing, capturedImage,
                 capTimers, shots, view, syncDirty>>

\* The 300 ms timer of line 151.
CapturingTimeout ==
  /\ ~syncDirty
  /\ capTimers > 0
  /\ capTimers' = capTimers - 1
  /\ isCapturing' = IF mounted THEN FALSE ELSE isCapturing
  /\ UNCHANGED grainVars
  /\ UNCHANGED <<camVars, selectedMode, filmCount, showFlash, capturedImage,
                 flashTimers, shots, view, syncDirty>>

\* A click on a mode button (line 313).
SelectMode(m) ==
  /\ mounted
  /\ m # selectedMode
  /\ selectedMode' = m
  /\ syncDirty' = TRUE
  /\ UNCHANGED grainVars
  /\ UNCHANGED <<camVars, filmCount, isCapturing, capturedImage, showFlash,
                 flashTimers, capTimers, shots, view>>

\* startCamera and the continuations, events and timers that complete it,
\* for at most maxCalls invocations.
CameraStep(maxCalls) ==
  \/ \E c \in Calls : startCamera(c, maxCalls)
  \/ \E c \in Calls : GumResolve(c)
  \/ \E c \in Calls : GumReject(c)
  \/ LoadedMetadata
  \/ VideoError
  \/ \E c \in Calls : PlayResolve(c)
  \/ \E c \in Calls : PlayReject(c)
  \/ \E c \in Calls : ReadyTimeout(c)
  \/ Unmount
  \/ Render

\* capturePhoto and its timers, for at most maxShots artifacts.
CaptureStep(maxShots) ==
  \/ \E ctx \in BOOLEAN : capturePhoto(ctx, maxShots)
  \/ FlashTimeout
  \/ CapturingTimeout

\* The camera lifecycle: every interleaving of MaxCalls invocations of
\* startCamera, with the first MaxShots captures.
Next == CameraStep(MaxCalls) \/ CaptureStep(MaxShots)

Spec == Init /\ [][Next]_vars

\* The event loop runs what is due: a scheduled render happens, and a pending
\* timer fires however many clicks (each followed by its render) come in
\* between.  Nothing makes the provider, the video element or play() answer.
Fairness ==
  /\ WF_vars(Render)
  /\ \A c \in Calls : SF_vars(ReadyTimeout(c))

\* The camera lifecycle alone.
NextLive == CameraStep(MaxCalls)

SpecLive == Init /\ [][NextLive]_vars /\ Fairness

\* The whole film: FilmCalls invocations of startCamera, every capture, and
\* the mode buttons.
NextFilm ==
  \/ CameraStep(FilmCalls)
  \/ CaptureStep(FilmStart + MaxPending)
  \/ \E m \in Modes : SelectMode(m)

SpecFilm == Init /\ [][NextFilm]_vars

\* ------------------------------------------------------------ film grain
\* Numbers are counted in steps of 1/NoiseRes.  Math.random() returns
\* rnd / (NoiseAmp * NoiseRes) for an rnd of Randoms, which is in [0, 1).
NoiseAmp == 20
ChannelMax == 255
Randoms == 0..(NoiseAmp * NoiseRes - 1)

\* (Math.random() - 0.5) * 20 of line 140, in 1/NoiseRes.
Noise(rnd) == rnd - (NoiseAmp * NoiseRes) \div 2

\* The store into a Uint8ClampedArray of the number v / NoiseRes: clamped
\* to 0..255 and rounded to the nearest integer, a half to the even one.
ToUint8Clamp(v) ==
  IF v <= 0 THEN 0
  ELSE IF v >= ChannelMax * NoiseRes THEN ChannelMax
  ELSE LET f == v \div NoiseRes
           r == v % NoiseRes
       IN IF 2 * r < NoiseRes THEN f
          ELSE IF 2 * r > NoiseRes THEN f + 1
          ELSE IF f % 2 = 0 THEN f ELSE f + 1

GrainPixelPerChannel(px, n) ==
  <<ToUint8Clamp(px[1] * NoiseRes + n), ToUint8Clamp(px[2] * NoiseRes - n),
    ToUint8Clamp(px[3] * NoiseRes + n), px[4]>>

\* The body of the loop of lines 139-144 for the pixel px and the sample n:
\* data[i] += noise for the three colour channels.
GrainPixel(px, n) ==
  <<ToUint8Clamp(px[1] * NoiseRes + n), ToUint8Clamp(px[2] * NoiseRes + n),
    ToUint8Clamp(px[3] * NoiseRes + n), px[4]>>

\* Channel values getImageData may return, near both ends of the range and
\* in the middle.
ChannelVals ==
  { v \in 0..ChannelMax :
      \/ v <= EdgeSpan
      \/ v >= ChannelMax - EdgeSpan
      \/ (v >= ChannelMax \div 2 /\ v <= ChannelMax \div 2 + EdgeSpan) }

\* getImageData of line 137: any pixel.
InitGrain ==
  /\ Mount
  /\ data \in [1..4 -> ChannelVals]
  /\ rawData = <<>>
  /\ noise = 0

\* Lines 139-145 for one pixel, with the value rnd of Math.random().
ApplyGrain(rnd) ==
  /\ rawData = <<>>
  /\ rawData' = data
  /\ noise' = Noise(rnd)
  /\ data' = GrainPixel(data, Noise(rnd))
  /\ UNCHANGED <<camVars, capVars, view, syncDirty>>

NextGrain == \E rnd \in Randoms : ApplyGrain(rnd)

SpecGrain == InitGrain /\ [][NextGrain]_vars

\* ================================================================ claims

\* C1: at most one AcquisitionHandle (a stream whose tracks have not been
\* stopped) is live in every reachable state, for every interleaving of
\* start() invocations.
AtMostOneLive == Cardinality(live) <= 1

\* C2: when no start() began while another was in flight and no call is in
\* flight, at most one stream is live, and it is the one streamRef holds:
\* every stream an earlier call obtained has been stopped.
SequentialNoLeak ==
  (~overlap /\ \A c \in Calls : pc[c] \notin InFlight)
    => (Cardinality(live) <= 1 /\ live \subseteq {streamRef})

\* Two calls, one after the other; the second began while the stream of the
\* first was held, and has settled in Active.
SequentialNoLeakWitness ==
  /\ ~overlap
  /\ pc[1] \in Finished /\ pc[2] = "done"
  /\ gumLog[2].held = 1
  /\ status = "active"
  /\ live = {2}

\* C3: when start() is called while a handle is held, at the moment the
\* acquisition request is issued that handle's tracks are stopped, the
\* handle reference is cleared and the rendering surface is detached.
ReleaseBeforeRequest ==
  \A c \in Calls :
    (pc[c] # "new" /\ gumLog[c].held # 0)
      => /\ gumLog[c].held \notin gumLog[c].live
         /\ gumLog[c].streamRef = 0
         /\ gumLog[c].srcObject = 0

\* A start() that found a handle held has issued its request.
ReleaseBeforeRequestWitness ==
  \E c \in Calls : pc[c] = "gum" /\ gumLog[c].held # 0

\* C4: in the state where a start() attempt sets status to Error, no handle
\* is held and the stream that attempt obtained is not live.
FailureRetainsNoHandle ==
  [][\A c \in Calls :
       (pc[c] # "failed" /\ pc'[c] = "failed" /\ status' = "error")
         => (streamRef' = 0 /\ c \notin live')]_vars

\* C5: every setting of CameraStatus to Active or to Error happens from
\* status Requesting.
ThroughRequesting ==
  status \in {"active", "error"} => prevStatus = "requesting"

\* C6: FilmBudget >= 0 in every reachable state.
FilmBudgetNonNegative == filmCount >= 0

NoLiveAfterTeardown ==
  (~mounted /\ \A c \in Calls : pc[c] \notin InFlight) => live = {}

StopIdempotent ==
  LET once == stopCamera(Handle, mounted)
      twice == stopCamera(once, mounted)
  IN /\ twice = once
     /\ stopCamera(twice, mounted) = once
     /\ streamRef = 0 => once = Handle

\* start() released a held handle, and the stop() of the teardown followed
\* with nothing in between that touches the handle.
StopIdempotentWitness ==
  /\ ~mounted
  /\ \E c \in Calls : pc[c] = "gum" /\ gumLog[c].held # 0
  /\ streamRef = 0
  /\ srcObject = 0

\* C11: a capture() that produces no artifact is a complete no-op: it leaves
\* FilmBudget, the held artifact, the flash signal and the capturing signal
\* unchanged.
CaptureWithoutArtifactIsNoOp ==
  [][((\E ctx \in BOOLEAN : capturePhoto(ctx, FilmStart + MaxPending))
        /\ shots' = shots)
       => /\ filmCount' = filmCount
          /\ capturedImage' = capturedImage
          /\ showFlash' = showFlash
          /\ isCapturing' = isCapturing]_vars

\* C12: every failure start() meets becomes status Error with the message
\* of its category: 'Camera access denied...' for a permission failure, 'No
\* camera found' for a device-not-found failure, 'Camera error: <message>'
\* for any other, the readiness timeout included.
FailureBecomesStatus ==
  /\ status = "error" =>
       /\ caught # NoErr
       /\ error = IF caught.name = "NotAllowedError" THEN PermissionMsg
                  ELSE IF caught.name = "NotFoundError" THEN NotFoundMsg
                  ELSE <<"Camera", "error:">> \o caught.message
  /\ \A c \in Calls : (pc[c] = "failed" /\ mounted) => status # "idle"

\* C13 as stated: one noise sample in [-10, +10] per pixel, the change applied
\* to the red, green and blue values numerically identical, alpha unchanged,
\* every channel value in 0..255.
GrainChannelShared ==
  rawData # <<>> =>
    /\ noise >= -(NoiseAmp \div 2) * NoiseRes
    /\ noise <= (NoiseAmp \div 2) * NoiseRes
    /\ (data[1] - rawData[1]) = (data[2] - rawData[2])
    /\ (data[2] - rawData[2]) = (data[3] - rawData[3])
    /\ data[4] = rawData[4]
    /\ \A i \in 1..4 : data[i] \in 0..ChannelMax

\* C13 amended: one noise sample in [-10, +10] per pixel is added to the red,
\* green and blue values, alpha unchanged, every channel value in 0..255; the
\* change of a channel is the sample rounded to an integer unless the channel
\* saturates at 0 or 255, where the change is smaller; so the three changes
\* are identical only among channels that do not saturate, and only up to
\* the rounding of a half.
GrainSharedUpToClamp ==
  rawData # <<>> =>
    /\ noise >= -(NoiseAmp \div 2) * NoiseRes
    /\ noise <= (NoiseAmp \div 2) * NoiseRes
    /\ data[4] = rawData[4]
    /\ \A i \in 1..4 : data[i] \in 0..ChannelMax
    /\ \A i \in 1..3 :
         /\ data[i] \notin {0, ChannelMax} =>
              /\ 2 * ((data[i] - rawData[i]) * NoiseRes - noise) <= NoiseRes
              /\ 2 * (noise - (data[i] - rawData[i]) * NoiseRes) <= NoiseRes
         /\ data[i] = ChannelMax =>
              /\ (data[i] - rawData[i]) >= 0
              /\ 2 * ((data[i] - rawData[i]) * NoiseRes - noise) <= NoiseRes
         /\ data[i] = 0 =>
              /\ (data[i] - rawData[i]) <= 0
              /\ 2 * (noise - (data[i] - rawData[i]) * NoiseRes) <= NoiseRes
    /\ \A i, j \in 1..3 :
         (data[i] \notin {0, ChannelMax} /\ data[j] \notin {0, ChannelMax}) =>
           /\ (data[i] - rawData[i]) - (data[j] - rawData[j]) \in {-1, 0, 1}
           /\ 2 * (noise % NoiseRes) # NoiseRes =>
                (data[i] - rawData[i]) = (data[j] - rawData[j])

\* A pixel whose red channel saturated at 255 while its green channel took
\* the whole sample.
GrainSharedUpToClampWitness ==
  /\ rawData # <<>>
  /\ rawData[1] < ChannelMax
  /\ data[1] = ChannelMax
  /\ data[2] \notin {0, ChannelMax}
  /\ (data[1] - rawData[1]) # (data[2] - rawData[2])

\* C14: every start() settles: once getUserMedia has answered, the invocation
\* ends and, on a mounted component, leaves status Active or Error; the wait
\* for readiness ends at the latest with the 5-second timer, whose firing
\* during the wait gives Error with the timeout message.
StartSettles ==
  /\ \A c \in Calls :
       pc[c] \in {"ready", "play"}
         ~> (pc[c] \in Finished /\ (~mounted \/ status \in {"active", "error"}))
  /\ [][\A c \in Calls :
          (ReadyTimeout(c) /\ pc[c] \in {"ready", "play"} /\ mounted)
            => /\ status' = "error"
               /\ error' = <<"Camera", "error:">> \o TimeoutErr.message]_vars

\* A wait for readiness that the timer ended.
StartSettlesWitness ==
  /\ mounted
  /\ status = "error"
  /\ caught = TimeoutErr
  /\ \E c \in Calls : pc[c] = "failed" /\ hasMeta = FALSE

SignalsHaveTimers ==
  mounted =>
    /\ showFlash => flashTimers > 0
    /\ isCapturing => capTimers > 0

\* C17: the capturing and flash signals are no capture lock: with a signal
\* of an earlier capture still set, status Active and budget > 0, a capture
\* runs, produces a new artifact that replaces the held one and takes 1 from
\* the budget.
SignalsAreNoLock ==
  (/\ mounted
   /\ isCapturing \/ showFlash
   /\ status = "active" /\ view.status = "active"
   /\ filmCount > 0 /\ view.filmCount > 0
   /\ shots < MaxShots
   /\ flashTimers < MaxPending /\ capTimers < MaxPending)
  => ENABLED (/\ capturePhoto(TRUE, MaxShots)
              /\ shots' = shots + 1
              /\ capturedImage' # capturedImage
              /\ filmCount' = filmCount - 1)

\* C18: the 5-second timer of a start() attempt that fires after that attempt
\* already succeeded or failed changes neither CameraStatus nor the held
\* handle, and removes no readiness listener of another attempt.
LateTimerHarmless ==
  [][\A c \in Calls :
       (ReadyTimeout(c) /\ pc[c] \in Finished)
         => /\ status' = status
            /\ error' = error
            /\ streamRef' = streamRef
            /\ srcObject' = srcObject
            /\ live' = live
            /\ pc' = pc
            /\ lsn' = lsn \ {c}]_vars

\* The timer of a finished attempt has fired while a later attempt was
\* waiting for readiness with its listeners registered.
LateTimerHarmlessWitness ==
  \E c, d \in Calls :
    /\ c < d
    /\ mounted
    /\ pc[c] = "done"
    /\ c \notin timers
    /\ streamRef = d
    /\ pc[d] = "ready"
    /\ d \in lsn
    /\ d \in timers

====
